---- MODULE Spec2Model ----
(***************************************************************************)
(* Model of cmd/client/main.go: the interactive inventory client.  The     *)
(* program is sequential; a step of the model is one blocking point of the *)
(* program: a line read from stdin, or the answer to an HTTP request.      *)
(* Lines are sequences of one-character strings, so that TrimSpace, Atoi,  *)
(* ParseFloat and URL parsing are computed rather than assumed.            *)
(***************************************************************************)
EXTENDS Integers, Sequences, FiniteSets, TLC

VARIABLES
    pc,        \* where the program blocks: a menu, a prompt, an HTTP call, or exited
    token,     \* Client.token
    op,        \* the operation being run (or the one run last)
    step,      \* index of the prompt being read within the operation
    args,      \* the local variables the operation has read so far
    wire,      \* the HTTP request in flight (sent = FALSE: none)
    out,       \* what was printed since the last menu choice was read
    choice,    \* the last menu choice read (trimmed)
    input,     \* the last line read from stdin and the prompt it answered
    nreq,      \* history: requests sent since the last menu choice was read
    lastReq,   \* history: the last request sent
    lastResp,  \* history: the answer received for the current choice, if any
    session,   \* history: token of the last 200 login answer with a non-empty token, "" after logout
    failedLogin \* history: TRUE from a failed login until the next successful one

vars == <<pc, token, op, step, args, wire, out, choice, input, nreq, lastReq,
          lastResp, session, failedLogin>>

----------------------------------------------------------------------------
(* Bounds and program constants *)

MaxQty == 2

StatusOK == 200
StatusCreated == 201

----------------------------------------------------------------------------
(* Text helpers *)

DigitChars == <<"0", "1", "2", "3", "4", "5", "6", "7", "8", "9">>

IsDigit(c) == \E i \in 1..10 : DigitChars[i] = c

DigitVal(c) == (CHOOSE i \in 1..10 : DigitChars[i] = c) - 1

HexChars == {"a", "b", "c", "d", "e", "f", "A", "B", "C", "D", "E", "F"}

IsHex(c) == IsDigit(c) \/ c \in HexChars

RECURSIVE TrimLeft(_)
TrimLeft(s) == IF s # <<>> /\ s[1] = " " THEN TrimLeft(Tail(s)) ELSE s

RECURSIVE TrimRight(_)
TrimRight(s) ==
    IF s # <<>> /\ s[Len(s)] = " " THEN TrimRight(SubSeq(s, 1, Len(s) - 1)) ELSE s

TrimSpace(s) == TrimRight(TrimLeft(s))

RECURSIVE DigitsValue(_)
DigitsValue(s) ==
    IF s = <<>> THEN 0
    ELSE 10 * DigitsValue(SubSeq(s, 1, Len(s) - 1)) + DigitVal(s[Len(s)])

AllDigits(s) == \A i \in 1..Len(s) : IsDigit(s[i])

StripSign(s) == IF s # <<>> /\ s[1] \in {"+", "-"} THEN Tail(s) ELSE s

\* strconv.Atoi on the short inputs of the model (no input is long enough to overflow)
Atoi(s) ==
    LET digits == StripSign(s)
        neg == s # <<>> /\ s[1] = "-"
    IN  IF digits = <<>> \/ ~AllDigits(digits)
        THEN [ok |-> FALSE, val |-> 0]
        ELSE [ok |-> TRUE,
              val |-> IF neg THEN 0 - DigitsValue(digits) ELSE DigitsValue(digits)]

\* the decimal text json.Marshal writes for an int
RECURSIVE Itoa(_)
Itoa(n) ==
    IF n < 0 THEN <<"-">> \o Itoa(0 - n)
    ELSE IF n < 10 THEN <<DigitChars[n + 1]>>
    ELSE Itoa(n \div 10) \o <<DigitChars[(n % 10) + 1]>>

NaNSpellings == {<<"N", "a", "N">>, <<"n", "a", "n">>}

InfSpellings == {<<"I", "n", "f">>, <<"i", "n", "f">>}

IsDecimal(s) ==
    LET dots == {i \in 1..Len(s) : s[i] = "."}
    IN  /\ Cardinality(dots) <= 1
        /\ \A i \in 1..Len(s) : IsDigit(s[i]) \/ s[i] = "."
        /\ \E i \in 1..Len(s) : IsDigit(s[i])

\* strconv.ParseFloat on the inputs of the model: decimal numbers, NaN, Inf
ParseFloat(s) ==
    IF s \in NaNSpellings THEN [ok |-> TRUE, class |-> "NaN", text |-> s]
    ELSE IF StripSign(s) \in InfSpellings THEN [ok |-> TRUE, class |-> "Inf", text |-> s]
    ELSE IF IsDecimal(StripSign(s)) THEN [ok |-> TRUE, class |-> "finite", text |-> s]
    ELSE [ok |-> FALSE, class |-> "none", text |-> <<>>]

\* url.Parse accepts a path only if every % starts a two-digit hex escape and
\* no character is a control character
ValidURLPath(s) ==
    \A i \in 1..Len(s) :
        /\ s[i] # "\t"
        /\ s[i] = "%" => /\ i + 2 <= Len(s)
                         /\ IsHex(s[i + 1])
                         /\ IsHex(s[i + 2])

----------------------------------------------------------------------------
(* Response bodies.  A body is its bytes (raw) and the JSON value they spell: *)
(* invalid JSON, null, an array of products, or an object whose members are   *)
(* <<name, type, text>>.                                                      *)

Tokens == {"tokA", "tokB"}

Widget == [ID |-> "p1", Name |-> "widget", Price |-> "9.50", Quantity |-> "3"]

ObjectBody(raw, members) ==
    [raw |-> raw, kind |-> "object", fields |-> members, items |-> <<>>]

Bodies ==
    {[raw |-> "<html>", kind |-> "invalid", fields |-> {}, items |-> <<>>],
     [raw |-> "null", kind |-> "null", fields |-> {}, items |-> <<>>],
     [raw |-> "[]", kind |-> "array", fields |-> {}, items |-> <<>>],
     [raw |-> "[widget]", kind |-> "array", fields |-> {}, items |-> <<Widget>>],
     ObjectBody("{}", {}),
     ObjectBody("{token:5}", {<<"token", "number", "5">>}),
     ObjectBody("{token:''}", {<<"token", "string", "">>}),
     ObjectBody("{error:'denied'}", {<<"error", "string", "denied">>}),
     ObjectBody("{message:'done'}", {<<"message", "string", "done">>}),
     ObjectBody("{inventory_value:28.5}", {<<"inventory_value", "number", "28.50">>}),
     ObjectBody("{widget}", {<<"id", "string", Widget.ID>>,
                             <<"name", "string", Widget.Name>>,
                             <<"price", "number", Widget.Price>>,
                             <<"quantity", "number", Widget.Quantity>>})}
    \cup {ObjectBody(t, {<<"token", "string", t>>}) : t \in Tokens}

Statuses == {StatusOK, StatusCreated, 204, 401, 500}

HasField(body, name) == \E m \in body.fields : m[1] = name

Field(body, name, zero) ==
    IF HasField(body, name)
    THEN (CHOOSE m \in body.fields : m[1] = name)[3]
    ELSE zero

\* json.Unmarshal into a struct whose fields are schema = {<<name, type>>}:
\* null leaves the struct zero, an object must agree in type on every member
\* the struct names, anything else is an error
UnmarshalStruct(body, schema) ==
    /\ body.kind \in {"object", "null"}
    /\ \A m \in body.fields : \A f \in schema : m[1] = f[1] => m[2] = f[2]

\* json.Unmarshal into []Product
UnmarshalProducts(body) == body.kind \in {"array", "null"}

ProductSchema ==
    {<<"id", "string">>, <<"name", "string">>,
     <<"price", "number">>, <<"quantity", "number">>}

DecodeProduct(body) ==
    [ID |-> Field(body, "id", ""), Name |-> Field(body, "name", ""),
     Price |-> Field(body, "price", "0.00"), Quantity |-> Field(body, "quantity", "0")]

----------------------------------------------------------------------------
(* Errors and printed lines *)

NoErr == [isErr |-> FALSE, text |-> "", arg |-> ""]

Err(text, arg) == [isErr |-> TRUE, text |-> text, arg |-> arg]

Line(text, fmtArgs) == [text |-> text, args |-> fmtArgs]

Result(err, printed, tok) == [err |-> err, out |-> printed, token |-> tok]

printErrorResponse(body) ==
    IF UnmarshalStruct(body, {<<"error", "string">>}) /\ Field(body, "error", "") # ""
    THEN Err("server error: %s", Field(body, "error", ""))
    ELSE Err("unknown server error: %s", body.raw)

handleProductResponse(body, statusCode, successMessage) ==
    IF statusCode # StatusOK /\ statusCode # StatusCreated
    THEN [err |-> printErrorResponse(body), out |-> {}]
    ELSE IF ~UnmarshalStruct(body, ProductSchema)
    THEN [err |-> Err("json: cannot unmarshal", body.raw), out |-> {}]
    ELSE [err |-> NoErr,
          out |-> {Line("<- Server Response:", <<>>)}
                  \cup (IF successMessage # ""
                        THEN {Line("   %s", <<successMessage>>)}
                        ELSE {})]

\* mutant: 201 accepted as well, as handleProductResponse does
handleMessageResponse_accepts201(body, statusCode, defaultMessage) ==
    IF statusCode # StatusOK /\ statusCode # StatusCreated
    THEN [err |-> printErrorResponse(body), out |-> {}]
    ELSE IF UnmarshalStruct(body, {<<"message", "string">>})
            /\ Field(body, "message", "") # ""
    THEN [err |-> NoErr,
          out |-> {Line("<- Server Response: %s", <<Field(body, "message", "")>>)}]
    ELSE [err |-> NoErr,
          out |-> {Line("<- Server Response: %s", <<defaultMessage>>)}]

handleMessageResponse(body, statusCode, defaultMessage) ==
    IF statusCode # StatusOK
    THEN [err |-> printErrorResponse(body), out |-> {}]
    ELSE IF UnmarshalStruct(body, {<<"message", "string">>})
            /\ Field(body, "message", "") # ""
    THEN [err |-> NoErr,
          out |-> {Line("<- Server Response: %s", <<Field(body, "message", "")>>)}]
    ELSE [err |-> NoErr,
          out |-> {Line("<- Server Response: %s", <<defaultMessage>>)}]

printProductsTable(products) ==
    {Line("ID NAME PRICE QUANTITY", <<>>)}
    \cup {Line("%s %s $%.2f %d",
               <<products[i].ID, products[i].Name, products[i].Price,
                 products[i].Quantity>>) : i \in 1..Len(products)}

listAllProducts(body, statusCode) ==
    IF statusCode # StatusOK
    THEN [err |-> printErrorResponse(body), out |-> {}]
    ELSE IF ~UnmarshalProducts(body)
    THEN [err |-> Err("json: cannot unmarshal", body.raw), out |-> {}]
    ELSE [err |-> NoErr,
          out |-> {Line("<- Server Response:", <<>>)}
                  \cup (IF Len(body.items) = 0
                        THEN {Line("No products found in inventory.", <<>>)}
                        ELSE printProductsTable(body.items))]

getInventoryValue(body, statusCode) ==
    IF statusCode # StatusOK
    THEN [err |-> printErrorResponse(body), out |-> {}]
    ELSE IF ~UnmarshalStruct(body, {<<"inventory_value", "number">>})
    THEN [err |-> Err("json: cannot unmarshal", body.raw), out |-> {}]
    ELSE [err |-> NoErr,
          out |-> {Line("<- Server Response:", <<>>),
                   Line("   Total Inventory Value: $%.2f",
                        <<Field(body, "inventory_value", "0.00")>>)}]

\* mutant: the body is decoded into c.token before the status is looked at
login_assignsFirst(body, statusCode, tok) ==
    LET decoded == UnmarshalStruct(body, {<<"token", "string">>})
        t == IF decoded THEN Field(body, "token", "") ELSE tok
    IN  IF statusCode # StatusOK THEN Result(printErrorResponse(body), {}, t)
        ELSE IF ~decoded
        THEN Result(Err("failed to decode login response", body.raw), {}, t)
        ELSE Result(NoErr, {}, t)

\* Client.login after makeRequest returned: the error and the value of c.token
login(body, statusCode, tok) ==
    IF statusCode # StatusOK
    THEN Result(printErrorResponse(body), {}, tok)
    ELSE IF ~UnmarshalStruct(body, {<<"token", "string">>})
    THEN Result(Err("failed to decode login response", body.raw), {}, tok)
    ELSE Result(NoErr, {}, Field(body, "token", ""))

\* what each operation does with the answer to its request
HandleResponse(o, body, statusCode, tok) ==
    LET r ==
        CASE o = "addProduct" ->
                handleProductResponse(body, statusCode, "Product added successfully.")
          [] o = "getProduct" -> handleProductResponse(body, statusCode, "")
          [] o = "listAllProducts" -> listAllProducts(body, statusCode)
          [] o = "sellProduct" ->
                handleProductResponse(body, statusCode, "Sale processed successfully.")
          [] o = "restockProduct" ->
                handleProductResponse(body, statusCode, "Product restocked successfully.")
          [] o = "updateProductPrice" ->
                handleMessageResponse(body, statusCode, "Price updated successfully.")
          [] o = "deleteProduct" ->
                handleMessageResponse(body, statusCode, "Product deleted successfully.")
          [] o = "getInventoryValue" -> getInventoryValue(body, statusCode)
    IN  IF o = "login" THEN login(body, statusCode, tok)
        ELSE Result(r.err, r.out, tok)

----------------------------------------------------------------------------
(* Requests *)

NoReq ==
    [sent |-> FALSE, method |-> "", path |-> <<"", <<>>, "">>, contentType |-> "",
     auth |-> [set |-> FALSE, value |-> ""], body |-> {}]

NoResp == [got |-> FALSE, status |-> 0, body |-> ObjectBody("", {})]

NoArgs ==
    [email |-> <<>>, password |-> <<>>, name |-> <<>>, id |-> <<>>,
     price |-> [ok |-> FALSE, class |-> "none", text |-> <<>>], quantity |-> 0]

\* the prompts each operation reads, in order, and how each line is parsed
Prompts(o) ==
    CASE o = "login" ->
            <<[field |-> "email", kind |-> "string"],
              [field |-> "password", kind |-> "string"]>>
      [] o = "addProduct" ->
            <<[field |-> "name", kind |-> "string"],
              [field |-> "price", kind |-> "float"],
              [field |-> "quantity", kind |-> "int"]>>
      [] o \in {"getProduct", "deleteProduct"} ->
            <<[field |-> "id", kind |-> "string"]>>
      [] o \in {"sellProduct", "restockProduct"} ->
            <<[field |-> "id", kind |-> "string"],
              [field |-> "quantity", kind |-> "int"]>>
      [] o = "updateProductPrice" ->
            <<[field |-> "id", kind |-> "string"],
              [field |-> "price", kind |-> "float"]>>
      [] OTHER -> <<>>

\* a payload is the set of the members of the map handed to json.Marshal:
\* <<key, class of the Go value, decimal or string text>>
PriceMember(a) == <<"price", IF a.price.class = "finite" THEN "number" ELSE a.price.class,
                    a.price.text>>

QuantityMember(a) == <<"quantity", "number", Itoa(a.quantity)>>

Request(method, path, hasPayload, payload) ==
    [method |-> method, path |-> path, hasPayload |-> hasPayload, payload |-> payload]

\* the arguments each operation hands to makeRequest
RequestOf(o, a) ==
    CASE o = "login" ->
            Request("POST", <<"/login", <<>>, "">>, TRUE,
                    {<<"email", "string", a.email>>, <<"password", "string", a.password>>})
      [] o = "addProduct" ->
            Request("POST", <<"/api/products", <<>>, "">>, TRUE,
                    {<<"name", "string", a.name>>, PriceMember(a), QuantityMember(a)})
      [] o = "getProduct" ->
            Request("GET", <<"/api/products/", a.id, "">>, FALSE, {})
      [] o = "listAllProducts" ->
            Request("GET", <<"/api/products", <<>>, "">>, FALSE, {})
      [] o = "sellProduct" ->
            Request("PATCH", <<"/api/products/", a.id, "/sell">>, TRUE, {QuantityMember(a)})
      [] o = "restockProduct" ->
            Request("PATCH", <<"/api/products/", a.id, "/restock">>, TRUE,
                    {QuantityMember(a)})
      [] o = "updateProductPrice" ->
            Request("PATCH", <<"/api/products/", a.id, "/price">>, TRUE, {PriceMember(a)})
      [] o = "deleteProduct" ->
            Request("DELETE", <<"/api/products/", a.id, "">>, FALSE, {})
      [] o = "getInventoryValue" ->
            Request("GET", <<"/api/inventory/value", <<>>, "">>, FALSE, {})

\* mutant: the header carries the token without the Bearer scheme
AuthHeader_noScheme(tok) ==
    IF tok # "" THEN [set |-> TRUE, value |-> tok]
    ELSE [set |-> FALSE, value |-> ""]

\* the Authorization header makeRequest sets
AuthHeader(tok) ==
    IF tok # "" THEN [set |-> TRUE, value |-> "Bearer " \o tok]
    ELSE [set |-> FALSE, value |-> ""]

\* makeRequest up to httpClient.Do: the request put on the wire, or the error
\* of json.Marshal (a NaN or infinite float) or of http.NewRequest (a URL that
\* does not parse)
makeRequest(method, path, hasPayload, payload, tok) ==
    IF hasPayload /\ \E m \in payload : m[2] \in {"NaN", "Inf"}
    THEN [ok |-> FALSE, err |-> Err("json: unsupported value", ""), req |-> NoReq]
    ELSE IF ~ValidURLPath(path[2])
    THEN [ok |-> FALSE, err |-> Err("parse: invalid URL", ""), req |-> NoReq]
    ELSE [ok |-> TRUE, err |-> NoErr,
          req |-> [sent |-> TRUE, method |-> method, path |-> path,
                   contentType |-> IF hasPayload THEN "application/json" ELSE "",
                   auth |-> AuthHeader(tok), body |-> payload]]

----------------------------------------------------------------------------
(* Standard input: the lines the operator may type at each kind of prompt *)

ChoiceLines ==
    {<<DigitChars[i]>> : i \in 1..10} \cup {<<>>, <<"x">>, <<" ", "9", " ">>, <<"1", "0">>}

StringLines == {<<"a">>}

IdLines == {<<"p", "1">>, <<" ", "p", "1">>, <<>>, <<"%">>, <<"%", "4", "1">>}

PriceLines ==
    {<<"9", ".", "5">>, <<"-", "1">>, <<"N", "a", "N">>, <<"I", "n", "f">>, <<"a">>, <<>>}

QuantityLines ==
    {Itoa(n) : n \in (0 - MaxQty)..MaxQty}
    \cup {<<"+", "1">>, <<" ", "2", " ">>, <<"0", "1">>, <<"a">>, <<>>,
          <<"1", ".", "5">>, <<"-">>}

LinesFor(field) ==
    CASE field = "id" -> IdLines
      [] field = "price" -> PriceLines
      [] field = "quantity" -> QuantityLines
      [] OTHER -> StringLines

----------------------------------------------------------------------------
(* Menus *)

LoggedOutMenu ==
    {Line("You are not logged in.", <<>>), Line("1. Login", <<>>), Line("2. Exit", <<>>)}

LoggedInMenu == {Line("Available Commands:", <<>>), Line("9. Logout", <<>>)}

InvalidChoice == Line("Invalid choice. Please select a valid option.", <<>>)

\* mutant: the test of c.token inverted
main_inverted(tok) == IF tok # "" THEN "loggedOutMenu" ELSE "loggedInMenu"

\* main's loop: which loop runs for a value of c.token
main(tok) == IF tok = "" THEN "loggedOutMenu" ELSE "loggedInMenu"

\* what is printed when main enters a loop
MenuOf(loop) ==
    IF loop = "loggedOutMenu" THEN LoggedOutMenu
    ELSE {Line("You are logged in.", <<>>)} \cup LoggedInMenu

\* the switch of runLoggedInLoop
MenuOp(c) ==
    CASE c = <<"1">> -> "addProduct"
      [] c = <<"2">> -> "getProduct"
      [] c = <<"3">> -> "listAllProducts"
      [] c = <<"4">> -> "sellProduct"
      [] c = <<"5">> -> "restockProduct"
      [] c = <<"6">> -> "updateProductPrice"
      [] c = <<"7">> -> "deleteProduct"
      [] c = <<"8">> -> "getInventoryValue"
      [] c = <<"9">> -> "logout"
      [] OTHER -> "none"

Announce(o) == {Line("-> %s...", <<o>>)}

\* Client.logout: the value of c.token and what is printed
logout == [token |-> "", out |-> {Line("You have been logged out.", <<>>)}]

----------------------------------------------------------------------------
(* The program *)

Init ==
    /\ pc = main("")
    /\ token = ""
    /\ op = "none"
    /\ step = 0
    /\ args = NoArgs
    /\ wire = NoReq
    /\ out = {Line("--- Inventory Management API Client ---", <<>>)} \cup MenuOf(main(""))
    /\ choice = <<>>
    /\ input = [field |-> "none", line |-> <<>>]
    /\ nreq = 0
    /\ lastReq = NoReq
    /\ lastResp = NoResp
    /\ session = ""
    /\ failedLogin = FALSE

\* mutant: an error is logged with log.Fatalf, which exits
NextLoop_fatal(o, err, tok) ==
    IF err.isErr THEN "exited"
    ELSE IF o = "login" THEN main(tok)
    ELSE "loggedInMenu"

\* where control goes once operation o has returned err, with c.token = tok:
\* runLoggedOutLoop returns to main only after a login without error, and
\* runLoggedInLoop keeps looping whatever the operation returned
NextLoop(o, err, tok) ==
    IF o = "login"
    THEN IF err.isErr THEN "loggedOutMenu" ELSE main(tok)
    ELSE "loggedInMenu"

\* what the loops print once operation o has returned err, up to the next prompt
Report(o, err, tok) ==
    IF o = "login"
    THEN IF err.isErr
         THEN {Line("Login failed: %v", <<err.text, err.arg>>)} \cup LoggedOutMenu
         ELSE {Line("Login successful!", <<>>)} \cup MenuOf(main(tok))
    ELSE (IF err.isErr
          THEN {Line("An error occurred: %v", <<err.text, err.arg>>)}
          ELSE {})
         \cup {Line("-------------------------------------", <<>>)} \cup LoggedInMenu

\* mutant: an operation that returns an error drops the session
Complete_dropsSessionOnError(o, res, printed) ==
    /\ token' = IF res.err.isErr THEN "" ELSE res.token
    /\ pc' = NextLoop(o, res.err, res.token)
    /\ out' = printed \cup res.out \cup Report(o, res.err, res.token)
    /\ failedLogin' = IF o = "login" THEN res.err.isErr ELSE failedLogin

\* operation o returns res = [err, out, token] to its loop
Complete(o, res, printed) ==
    /\ token' = res.token
    /\ pc' = NextLoop(o, res.err, res.token)
    /\ out' = printed \cup res.out \cup Report(o, res.err, res.token)
    /\ failedLogin' = IF o = "login" THEN res.err.isErr ELSE failedLogin

\* operation o, having read a, calls makeRequest: the request goes on the wire
\* and the program blocks in httpClient.Do, or makeRequest returns an error
\* before sending anything
Call(o, a, printed, n) ==
    LET r == RequestOf(o, a)
        m == makeRequest(r.method, r.path, r.hasPayload, r.payload, token)
    IN  IF m.ok
        THEN /\ wire' = m.req
             /\ lastReq' = m.req
             /\ nreq' = n + 1
             /\ pc' = "await"
             /\ out' = printed
             /\ UNCHANGED <<token, failedLogin>>
        ELSE /\ nreq' = n
             /\ UNCHANGED <<wire, lastReq>>
             /\ Complete(o, Result(m.err, {}, token), printed)

\* runLoggedOutLoop reads a choice
runLoggedOutLoop(line) ==
    /\ pc = "loggedOutMenu"
    /\ LET c == TrimSpace(line)
       IN  /\ choice' = c
           /\ input' = [field |-> "choice", line |-> line]
           /\ CASE c = <<"1">> ->
                     /\ pc' = "prompt"
                     /\ op' = "login"
                     /\ step' = 1
                     /\ out' = Announce("login")
                [] c = <<"2">> ->
                     /\ pc' = "exited"
                     /\ op' = "none"
                     /\ step' = 0
                     /\ out' = {Line("Exiting client.", <<>>)}
                [] OTHER ->
                     /\ pc' = "loggedOutMenu"
                     /\ op' = "none"
                     /\ step' = 0
                     /\ out' = {InvalidChoice} \cup LoggedOutMenu
    /\ args' = NoArgs
    /\ nreq' = 0
    /\ lastResp' = NoResp
    /\ UNCHANGED <<token, wire, lastReq, session, failedLogin>>

\* runLoggedInLoop reads a choice
runLoggedInLoop(line) ==
    /\ pc = "loggedInMenu"
    /\ LET c == TrimSpace(line)
           o == MenuOp(c)
       IN  /\ choice' = c
           /\ input' = [field |-> "choice", line |-> line]
           /\ op' = o
           /\ CASE o = "logout" ->
                     /\ token' = logout.token
                     /\ session' = ""
                     /\ pc' = main(logout.token)
                     /\ out' = logout.out \cup MenuOf(main(logout.token))
                     /\ step' = 0
                     /\ nreq' = 0
                     /\ UNCHANGED <<wire, lastReq, failedLogin>>
                [] o = "none" ->
                     /\ pc' = "loggedInMenu"
                     /\ out' = {InvalidChoice} \cup Report(o, NoErr, token)
                     /\ step' = 0
                     /\ nreq' = 0
                     /\ UNCHANGED <<token, session, wire, lastReq, failedLogin>>
                [] OTHER ->
                     /\ UNCHANGED session
                     /\ IF Prompts(o) = <<>>
                        THEN /\ step' = 0
                             /\ Call(o, NoArgs, Announce(o), 0)
                        ELSE /\ step' = 1
                             /\ pc' = "prompt"
                             /\ out' = Announce(o)
                             /\ nreq' = 0
                             /\ UNCHANGED <<token, wire, lastReq, failedLogin>>
    /\ args' = NoArgs
    /\ lastResp' = NoResp

\* readString, readInt or readFloat reads one line for the current prompt of
\* the operation; after the last prompt the operation calls makeRequest
ReadInput(line) ==
    /\ pc = "prompt"
    /\ LET p == Prompts(op)[step]
           t == TrimSpace(line)
           accepted == CASE p.kind = "int" -> Atoi(t).ok
                         [] p.kind = "float" -> ParseFloat(t).ok
                         [] OTHER -> TRUE
           value == CASE p.kind = "int" -> Atoi(t).val
                      [] p.kind = "float" -> ParseFloat(t)
                      [] OTHER -> t
           a == [args EXCEPT ![p.field] = value]
       IN  /\ line \in LinesFor(p.field)
           /\ input' = [field |-> p.field, line |-> line]
           /\ IF ~accepted
              THEN /\ out' = out \cup {Line("Error: Please enter a valid number.", <<p.kind>>)}
                   /\ UNCHANGED <<pc, step, args, token, wire, lastReq, nreq, failedLogin>>
              ELSE /\ args' = a
                   /\ IF step < Len(Prompts(op))
                      THEN /\ step' = step + 1
                           /\ UNCHANGED <<pc, out, token, wire, lastReq, nreq, failedLogin>>
                      ELSE /\ step' = step
                           /\ Call(op, a, out, nreq)
    /\ UNCHANGED <<op, choice, lastResp, session>>

\* httpClient.Do returns the server's answer and the operation handles it
ServerRespond(statusCode, body) ==
    /\ pc = "await"
    /\ wire' = NoReq
    /\ lastResp' = [got |-> TRUE, status |-> statusCode, body |-> body]
    /\ Complete(op, HandleResponse(op, body, statusCode, token), out)
    /\ session' = IF /\ op = "login"
                     /\ statusCode = StatusOK
                     /\ \E m \in body.fields :
                            m[1] = "token" /\ m[2] = "string" /\ m[3] # ""
                  THEN Field(body, "token", "")
                  ELSE session
    /\ UNCHANGED <<op, step, args, choice, input, nreq, lastReq>>

\* httpClient.Do or io.ReadAll fails: makeRequest returns the error
TransportError ==
    /\ pc = "await"
    /\ wire' = NoReq
    /\ Complete(op, Result(Err("transport error", ""), {}, token), out)
    /\ UNCHANGED <<op, step, args, choice, input, nreq, lastReq, lastResp, session>>

Next ==
    \/ \E line \in ChoiceLines : runLoggedOutLoop(line)
    \/ \E line \in ChoiceLines : runLoggedInLoop(line)
    \/ \E line \in IdLines \cup PriceLines \cup QuantityLines \cup StringLines :
          ReadInput(line)
    \/ \E statusCode \in Statuses : \E body \in Bodies : ServerRespond(statusCode, body)
    \/ TransportError

Spec == Init /\ [][Next]_vars

----------------------------------------------------------------------------
(* Vocabulary of the properties *)

ProductOps ==
    {"addProduct", "getProduct", "listAllProducts", "sellProduct", "restockProduct",
     "updateProductPrice", "deleteProduct", "getInventoryValue"}

ApiPrefixes == {"/api/products", "/api/products/", "/api/inventory/value"}

InLoggedOutLoop == pc = "loggedOutMenu" \/ (pc \in {"prompt", "await"} /\ op = "login")

InLoggedInLoop == pc = "loggedInMenu" \/ (pc \in {"prompt", "await"} /\ op # "login")

ErrorReported ==
    \E l \in out : l.text \in {"An error occurred: %v", "Login failed: %v"}

ServerErrorReported ==
    \E l \in out :
        /\ l.text \in {"An error occurred: %v", "Login failed: %v"}
        /\ l.args[1] \in {"server error: %s", "unknown server error: %s"}

\* the operation of the current choice has been answered and handled
Answered == lastResp.got /\ ~wire.sent

----------------------------------------------------------------------------
\* C1: once a login was answered 200 with a non-empty token t, every request
\* on the wire until the next logout carries Authorization: Bearer t.
C1_BearerUntilLogout ==
    (session # "" /\ wire.sent)
        => wire.auth = [set |-> TRUE, value |-> "Bearer " \o session]

C1_Witness ==
    /\ session = "tokB"
    /\ wire.sent
    /\ op = "sellProduct"
    /\ wire.auth.value = "Bearer tokB"

\* C2: the logged-in loop runs only with a non-empty token and the logged-out
\* loop only with an empty one; every /api request carries an Authorization
\* header and every /login request carries none.
C2_TwoSessionStates ==
    /\ InLoggedInLoop => token # ""
    /\ InLoggedOutLoop => token = ""
    /\ (wire.sent /\ wire.path[1] \in ApiPrefixes) => wire.auth.set
    /\ (wire.sent /\ wire.path[1] = "/login") => ~wire.auth.set

C2_Witness ==
    /\ wire.sent
    /\ wire.path[1] = "/api/inventory/value"
    /\ wire.auth.set
    /\ failedLogin = FALSE

\* the method and path the menu lists for each choice
Route(o) ==
    CASE o = "addProduct" -> <<"POST", "/api/products", "">>
      [] o = "getProduct" -> <<"GET", "/api/products/", "">>
      [] o = "listAllProducts" -> <<"GET", "/api/products", "">>
      [] o = "sellProduct" -> <<"PATCH", "/api/products/", "/sell">>
      [] o = "restockProduct" -> <<"PATCH", "/api/products/", "/restock">>
      [] o = "updateProductPrice" -> <<"PATCH", "/api/products/", "/price">>
      [] o = "deleteProduct" -> <<"DELETE", "/api/products/", "">>
      [] o = "getInventoryValue" -> <<"GET", "/api/inventory/value", "">>

\* C3: when the logged-in loop is back at its menu after a choice 1-8, exactly
\* one request was sent for that choice, with the method and path of the
\* choice; after choice 9 or any other input none was sent; and no line is
\* read while a request is in flight.
C3_OneRequestPerChoice ==
    /\ (pc = "loggedInMenu" /\ op \in ProductOps) =>
            /\ nreq = 1
            /\ <<lastReq.method, lastReq.path[1], lastReq.path[3]>> = Route(op)
    /\ (pc \in {"loggedInMenu", "loggedOutMenu"} /\ op \in {"none", "logout"}) => nreq = 0
    /\ wire.sent => pc = "await"

\* What does hold of choices 1-8 (not the claim C3): at most one request is
\* sent, with the method and path of the choice, and exactly one unless
\* makeRequest fails before sending: the id does not form a URL that parses,
\* or the price is NaN or infinite.
RequestBuilt ==
    /\ ValidURLPath(args.id)
    /\ args.price.class \notin {"NaN", "Inf"}

OneRequestWhenBuilt ==
    /\ (pc = "loggedInMenu" /\ op \in ProductOps) =>
            /\ nreq = (IF RequestBuilt THEN 1 ELSE 0)
            /\ nreq = 1 =>
                  <<lastReq.method, lastReq.path[1], lastReq.path[3]>> = Route(op)
    /\ nreq \in {0, 1}
    /\ wire.sent => pc = "await"

\* What does hold of the quantity prompt (not the claim C5): a line is accepted
\* exactly when it parses, whatever its value, and every request of the
\* operation carries the value read.
QuantityNeverChecked ==
    /\ (input.field = "quantity" /\ Atoi(TrimSpace(input.line)).ok) =>
            /\ pc # "prompt"
            /\ nreq = (IF RequestBuilt THEN 1 ELSE 0)
            /\ nreq = 1 =>
                  <<"quantity", "number", Itoa(Atoi(TrimSpace(input.line)).val)>>
                      \in lastReq.body
    /\ (input.field = "quantity" /\ ~Atoi(TrimSpace(input.line)).ok) =>
            /\ pc = "prompt"
            /\ Prompts(op)[step].field = "quantity"
    /\ pc = "prompt" => (nreq = 0 /\ ~wire.sent)

\* C4: after Get Product by ID was answered 200 with a decodable product, the
\* product's id, name, price and quantity are in the output.
C4_ProductRendered ==
    (/\ op = "getProduct"
     /\ Answered
     /\ lastResp.status = StatusOK
     /\ UnmarshalStruct(lastResp.body, ProductSchema)
     /\ \A f \in ProductSchema : HasField(lastResp.body, f[1]))
        => \E l \in out :
              LET p == DecodeProduct(lastResp.body)
                  shown == {l.args[i] : i \in 1..Len(l.args)}
              IN  {p.ID, p.Name, p.Price, p.Quantity} \subseteq shown

\* C5: in add, sell and restock, a line at the quantity prompt that parses as
\* an integer is accepted whatever its value and a request carrying that value
\* is sent; a line that does not parse is prompted for again, and no request
\* is sent before a parsable one was read.
C5_QuantitySentUnchanged ==
    /\ (input.field = "quantity" /\ Atoi(TrimSpace(input.line)).ok) =>
            /\ nreq = 1
            /\ <<"quantity", "number", Itoa(Atoi(TrimSpace(input.line)).val)>>
                   \in lastReq.body
    /\ (input.field = "quantity" /\ ~Atoi(TrimSpace(input.line)).ok) =>
            /\ pc = "prompt"
            /\ Prompts(op)[step].field = "quantity"
            /\ nreq = 0
    /\ pc = "prompt" => (nreq = 0 /\ ~wire.sent)

\* C6: a login that fails in transport, is answered with a status other than
\* 200, or with a body that does not decode, leaves the token empty and the
\* client in the logged-out loop, and the next request carries no
\* Authorization header.
C6_FailedLoginChangesNothing ==
    /\ (/\ op = "login"
        /\ nreq = 1
        /\ ~wire.sent
        /\ \/ ~lastResp.got
           \/ lastResp.status # StatusOK
           \/ ~UnmarshalStruct(lastResp.body, {<<"token", "string">>}))
            => /\ token = ""
               /\ pc = "loggedOutMenu"
               /\ failedLogin
    /\ failedLogin =>
            /\ token = ""
            /\ InLoggedOutLoop \/ pc = "exited"
            /\ wire.sent => ~wire.auth.set

C6_Witness ==
    /\ failedLogin
    /\ wire.sent
    /\ wire.path[1] = "/login"

\* C7: a step of a product or inventory-value operation never changes the
\* token or leaves the logged-in loop; only choice 9 clears the token, and it
\* sends no request; the token changes only in login and logout.
C7_TokenFrame ==
    [][/\ (InLoggedInLoop /\ choice' # <<"9">>) =>
              (token' = token /\ InLoggedInLoop')
       /\ (InLoggedInLoop /\ choice' = <<"9">> /\ pc = "loggedInMenu") =>
              (token' = "" /\ nreq' = 0 /\ ~wire'.sent /\ lastReq' = lastReq)
       /\ token' # token =>
              \/ pc = "await" /\ op = "login"
              \/ pc = "loggedInMenu" /\ choice' = <<"9">>]_vars

C7_Witness ==
    /\ pc = "loggedInMenu"
    /\ op = "deleteProduct"
    /\ Answered
    /\ lastResp.status = 401
    /\ token = session
    /\ token # ""

\* the statuses the claim lists as accepted by each operation
Accepted(o) ==
    IF o \in {"addProduct", "getProduct", "sellProduct", "restockProduct"}
    THEN {StatusOK, StatusCreated}
    ELSE {StatusOK}

\* the decode an operation needs to succeed
RequiredDecode(o, body) ==
    CASE o = "login" -> UnmarshalStruct(body, {<<"token", "string">>})
      [] o = "listAllProducts" -> UnmarshalProducts(body)
      [] o = "getInventoryValue" -> UnmarshalStruct(body, {<<"inventory_value", "number">>})
      [] o \in {"addProduct", "getProduct", "sellProduct", "restockProduct"} ->
            UnmarshalStruct(body, ProductSchema)
      [] OTHER -> TRUE

\* C8: an answered operation is reported as an error exactly when the status
\* is outside its accepted set or its required decode fails; a status outside
\* the set is reported as a server error; for update price and delete a 200
\* is a success whatever the body.
C8_ErrorIffNotAccepted ==
    Answered =>
        /\ ErrorReported <=>
              \/ lastResp.status \notin Accepted(op)
              \/ ~RequiredDecode(op, lastResp.body)
        /\ lastResp.status \notin Accepted(op) => ServerErrorReported
        /\ (op \in {"updateProductPrice", "deleteProduct"} /\ lastResp.status = StatusOK)
              => ~ErrorReported

C8_Witness ==
    /\ Answered
    /\ op = "deleteProduct"
    /\ lastResp.status = StatusCreated
    /\ ServerErrorReported

\* C9: whenever "Login successful!" is printed the token is non-empty and the
\* next menu is the logged-in one.
C9_LoginSuccessfulMeansLoggedIn ==
    Line("Login successful!", <<>>) \in out => (token # "" /\ pc = "loggedInMenu")

\* C10: the process exits only by choice 2 of the logged-out menu, so never
\* while logged in; and each menu can reach exit: the logged-out menu by
\* choice 2, the logged-in menu by choice 9 followed by choice 2.
C10_ExitOnlyByChoice2 ==
    /\ [][pc' = "exited" =>
             (pc = "loggedOutMenu" /\ choice' = <<"2">> /\ token = "")]_vars
    /\ [](pc = "loggedOutMenu" => ENABLED (runLoggedOutLoop(<<"2">>) /\ pc' = "exited"))
    /\ [](pc = "loggedInMenu" =>
             ENABLED (runLoggedInLoop(<<"9">>) /\ pc' = "loggedOutMenu"))

C10_Witness ==
    /\ pc = "exited"
    /\ lastReq.sent
    /\ lastReq.auth.set

====
